---------------------------- MODULE Spec2Model ----------------------------
(***************************************************************************)
(* NocSonicMedia: the JavaScript client of a Cordova media plugin.         *)
(*                                                                         *)
(* Two variants of one interface are modelled:                             *)
(*   bridge  src/www/NocSonicMedia.js   every operation is an exec()       *)
(*                                      request to native code             *)
(*   local   src/unnamed/part_000       operations act on an in-page       *)
(*                                      Audio element                      *)
(*                                                                         *)
(* JavaScript values are tagged records: Num(n) a number, Str(s) a text,   *)
(* NaN, Undefined, Obj(code) an error object {code: ...}, Exc(k) a caught  *)
(* exception.  Callback invocations of one operation are recorded, in      *)
(* order, in `calls`; `raised` tells whether the operation threw to its    *)
(* caller; `op` names the operation and its inputs.                        *)
(***************************************************************************)
EXTENDS Integers, Sequences, FiniteSets, Bags, TLC

VARIABLES
    variant,        \* "bridge" or "local": which file is loaded
    mediaObjects,   \* var mediaObjects = {}: id -> handle
    pending,        \* bridge: exec() requests not yet acknowledged (a bag)
    op,             \* the last operation and its inputs
    calls,          \* callbacks invoked by the last operation, in order
    raised,         \* whether the last operation raised to its caller
    succeeded,      \* history: ids whose successCallback has been invoked
                    \* so far, or NotTracked
    boot            \* the page's start-up: platform, readiness gate,
                    \* Cordova's ready events, message-channel requests

vars == <<variant, mediaObjects, pending, op, calls, raised, succeeded, boot>>

----------------------------------------------------------------------------
(* JavaScript values *)

Num(n) == [num |-> n]
Str(s) == [str |-> s]
Obj(c) == [code |-> c]
Exc(k) == [exc |-> k]
NaN == [nan |-> TRUE]
Undefined == [undef |-> TRUE]

IsNum(v) == DOMAIN v = {"num"}
IsStr(v) == DOMAIN v = {"str"}

\* Decimal texts the model uses, with the number each one denotes.
NumericText == [t \in {"0", "2", "4"} |-> CASE t = "0" -> 0 [] t = "2" -> 2 [] t = "4" -> 4]

\* Number(value): a number is itself, a numeric text its number, the empty
\* text 0, any other text or object NaN.
Number(v) ==
    IF IsNum(v) THEN v
    ELSE IF IsStr(v)
         THEN IF v.str \in DOMAIN NumericText THEN Num(NumericText[v.str])
              ELSE IF v.str = "" THEN Num(0) ELSE NaN
         ELSE NaN

\* a == b of JavaScript between a value and a number: a text operand is
\* converted with Number first.
LooseEq(v, n) == Number(v) = Num(n)

\* a === b: no conversion.
StrictEq(v, n) == v = Num(n)

\* Truthiness, as `x || y` and `if (x)` test it.
Truthy(v) ==
    IF IsNum(v) THEN v.num # 0
    ELSE IF IsStr(v) THEN v.str # ""
    ELSE v # NaN /\ v # Undefined

----------------------------------------------------------------------------
(* Message types and playback states *)

MEDIA_STATE == 1
MEDIA_DURATION == 2
MEDIA_POSITION == 3
MEDIA_ERROR == 9

MEDIA_NONE == 0
MEDIA_STARTING == 1
MEDIA_RUNNING == 2
MEDIA_PAUSED == 3
MEDIA_STOPPED == 4

\* NocSonicMediaError codes, kept symbolic.
MEDIA_ERR_ABORTED == "MEDIA_ERR_ABORTED"
MEDIA_ERR_SRC_NOT_SUPPORTED == "MEDIA_ERR_SRC_NOT_SUPPORTED"
MEDIA_ERR_DECODE == "MEDIA_ERR_DECODE"

----------------------------------------------------------------------------
(* Inputs the environment and the application draw from *)

\* utils.createUUID() results in the order they are handed out, and an id
\* no handle was ever given.
IdSeq == <<"id1", "id2">>
Ids == {IdSeq[i] : i \in DOMAIN IdSeq}
UnknownId == "idX"

\* exec() requests in flight at one time.
MaxPending == 1

\* Sources a handle is constructed with.
Srcs == {Str("track.mp3")}

\* Which of successCallback, errorCallback, statusCallback are passed.
CallbackNames == {"successCallback", "errorCallback", "statusCallback"}
CallbackChoices == {CallbackNames, {}}

\* seekTo arguments, in milliseconds (multiples of 1000: the division by
\* 1000 is then exact in the integers).
SeekMs == {0, 2000}

\* setVolume arguments, in percent of full volume.
Volumes == {50}

\* Payloads of status messages, per message type.
StateValues == {Num(n) : n \in MEDIA_NONE..MEDIA_STOPPED} \cup {Str("4")}
DurationValues == {Num(-1), Num(7)}
PositionValues == {Num(2), Str("2")}
ErrorValues == {Num(1)}
UnknownMsgType == 5
MsgTypes == {MEDIA_STATE, MEDIA_DURATION, MEDIA_POSITION, MEDIA_ERROR}

\* The values tried with a message for id of type msgType; a message for
\* an id that was never handed out is tried with one value per type.
ValuesOf(id, msgType) ==
    IF id = UnknownId THEN {Num(MEDIA_STOPPED)}
    ELSE CASE msgType = MEDIA_STATE -> StateValues
           [] msgType = MEDIA_DURATION -> DurationValues
           [] msgType = MEDIA_POSITION -> PositionValues
           [] msgType = MEDIA_ERROR -> ErrorValues
           [] OTHER -> {Num(0)}

\* e.target.duration at a durationchange event, e.target.error.code at an
\* error event.
ElementDurations == {NaN, Num(7)}
ElementErrorCodes == {MEDIA_ERR_SRC_NOT_SUPPORTED, MEDIA_ERR_DECODE}

----------------------------------------------------------------------------
(* One operation's run: the registry it works on, the callbacks it has     *)
(* invoked so far, whether it has thrown to its caller.                    *)

Run == [objs |-> mediaObjects, pending |-> pending, calls |-> <<>>, raised |-> FALSE]

Call(cb, id, args) == [cb |-> cb, id |-> id, args |-> args]

\* media.cb && media.cb(args)
Invoke(m, id, cb, args) ==
    IF cb \in m.objs[id].callbacks
    THEN [m EXCEPT !.calls = Append(@, Call(cb, id, args))]
    ELSE m

\* An exception leaves the operation uncaught.
Throw(m) == [m EXCEPT !.raised = TRUE]

----------------------------------------------------------------------------
(* Local variant: src/unnamed/part_000 *)

NodeListeners == {"onloadstart", "onplaying", "ondurationchange", "onerror", "onended"}

\* Mutant: the element is built without its source.
createNode_NoSrc(media) ==
    [ listeners   |-> NodeListeners,
      src         |-> Str(""),
      currentTime |-> 0,
      volume      |-> 100,
      paused      |-> TRUE ]

\* createNode(media): a fresh, paused Audio element with the five
\* listeners, its src set when media.src is truthy.
createNode(media) ==
    [ listeners   |-> NodeListeners,
      src         |-> IF Truthy(media.src) THEN media.src ELSE Str(""),
      currentTime |-> 0,
      volume      |-> 100,
      paused      |-> TRUE ]

HasNode(h) == h.node # Undefined

\* Mutant: successCallback is invoked before statusCallback.
Local_onStatus_SuccessFirst(m, id, msgType, value) ==
    IF id \in DOMAIN m.objs
    THEN CASE msgType = MEDIA_STATE ->
                LET m1 == IF StrictEq(value, MEDIA_STOPPED)
                          THEN Invoke(m, id, "successCallback", <<>>)
                          ELSE m
                IN  Invoke(m1, id, "statusCallback", <<value>>)
           [] msgType = MEDIA_DURATION ->
                [m EXCEPT !.objs[id]._duration = value]
           [] msgType = MEDIA_ERROR ->
                Invoke(m, id, "errorCallback", <<value>>)
           [] msgType = MEDIA_POSITION ->
                [m EXCEPT !.objs[id]._position = Number(value)]
           [] OTHER -> m
    ELSE m

Local_onStatus(m, id, msgType, value) ==
    IF id \in DOMAIN m.objs
    THEN CASE msgType = MEDIA_STATE ->
                LET m1 == Invoke(m, id, "statusCallback", <<value>>)
                IN  IF StrictEq(value, MEDIA_STOPPED)
                    THEN Invoke(m1, id, "successCallback", <<>>)
                    ELSE m1
           [] msgType = MEDIA_DURATION ->
                [m EXCEPT !.objs[id]._duration = value]
           [] msgType = MEDIA_ERROR ->
                Invoke(m, id, "errorCallback", <<value>>)
           [] msgType = MEDIA_POSITION ->
                [m EXCEPT !.objs[id]._position = Number(value)]
           [] OTHER -> m
    ELSE m

\* Mutant: the handle is entered in the registry after the Starting
\* notification.
Local_construct_LateRegister(m, id, src, cbs, nodeOk) ==
    LET h  == [ src |-> src, callbacks |-> cbs, _duration |-> Num(-1),
                _position |-> Num(-1), node |-> Undefined ]
        m0 == Local_onStatus(m, id, MEDIA_STATE, Num(MEDIA_STARTING))
        m1 == [m0 EXCEPT !.objs = [i \in DOMAIN m.objs \cup {id} |->
                                     IF i = id THEN h ELSE m.objs[i]]]
    IN  IF nodeOk
        THEN [m1 EXCEPT !.objs[id].node = createNode(h)]
        ELSE Local_onStatus(m1, id, MEDIA_ERROR, Obj(MEDIA_ERR_ABORTED))

\* new NocSonicMedia(src, successCallback, errorCallback, statusCallback);
\* nodeOk tells whether createNode returns or throws.
Local_construct(m, id, src, cbs, nodeOk) ==
    LET h  == [ src |-> src, callbacks |-> cbs, _duration |-> Num(-1),
                _position |-> Num(-1), node |-> Undefined ]
        m0 == [m EXCEPT !.objs = [i \in DOMAIN m.objs \cup {id} |->
                                    IF i = id THEN h ELSE m.objs[i]]]
        m1 == Local_onStatus(m0, id, MEDIA_STATE, Num(MEDIA_STARTING))
    IN  IF nodeOk
        THEN [m1 EXCEPT !.objs[id].node = createNode(h)]
        ELSE Local_onStatus(m1, id, MEDIA_ERROR, Obj(MEDIA_ERR_ABORTED))

Local_play(m, id, nodeOk) ==
    LET m1 == IF ~HasNode(m.objs[id])
              THEN IF nodeOk
                   THEN [m EXCEPT !.objs[id].node = createNode(m.objs[id])]
                   ELSE Local_onStatus(m, id, MEDIA_ERROR, Obj(MEDIA_ERR_ABORTED))
              ELSE m
    IN  IF HasNode(m1.objs[id])
        THEN [m1 EXCEPT !.objs[id].node.paused = FALSE]
        ELSE Throw(m1)

\* Mutant: pause() does nothing when the element is absent.
Local_pause_Quiet(m, id, elementFails) ==
    IF ~HasNode(m.objs[id])
    THEN m
    ELSE IF elementFails
         THEN Local_onStatus(m, id, MEDIA_ERROR, Exc("DOMException"))
         ELSE Local_onStatus([m EXCEPT !.objs[id].node.paused = TRUE],
                             id, MEDIA_STATE, Num(MEDIA_PAUSED))

\* elementFails: the element's own pause() throws.
Local_pause(m, id, elementFails) ==
    IF ~HasNode(m.objs[id])
    THEN Local_onStatus(m, id, MEDIA_ERROR, Exc("TypeError"))
    ELSE IF elementFails
         THEN Local_onStatus(m, id, MEDIA_ERROR, Exc("DOMException"))
         ELSE Local_onStatus([m EXCEPT !.objs[id].node.paused = TRUE],
                             id, MEDIA_STATE, Num(MEDIA_PAUSED))

\* Mutant: seekTo checks for the element but does not catch its refusal.
Local_seekTo_NoCatch(m, id, milliseconds, elementFails) ==
    IF ~HasNode(m.objs[id])
    THEN Local_onStatus(m, id, MEDIA_ERROR, Exc("TypeError"))
    ELSE IF elementFails
         THEN Throw(m)
         ELSE [m EXCEPT !.objs[id].node.currentTime = milliseconds \div 1000]

\* elementFails: the element refuses the new currentTime.
Local_seekTo(m, id, milliseconds, elementFails) ==
    IF ~HasNode(m.objs[id])
    THEN Local_onStatus(m, id, MEDIA_ERROR, Exc("TypeError"))
    ELSE IF elementFails
         THEN Local_onStatus(m, id, MEDIA_ERROR, Exc("DOMException"))
         ELSE [m EXCEPT !.objs[id].node.currentTime = milliseconds \div 1000]

\* Mutant: stop() does not move the time cursor.
Local_stop_NoRewind(m, id, pauseFails, seekFails) ==
    LET m1 == Local_pause(m, id, pauseFails)
    IN  Local_onStatus(m1, id, MEDIA_STATE, Num(MEDIA_STOPPED))

\* Mutant: stop() leaves the Stopped notification out.
Local_stop_Silent(m, id, pauseFails, seekFails) ==
    LET m1 == Local_pause(m, id, pauseFails)
    IN  Local_seekTo(m1, id, 0, seekFails)

Local_stop(m, id, pauseFails, seekFails) ==
    LET m1 == Local_pause(m, id, pauseFails)
        m2 == Local_seekTo(m1, id, 0, seekFails)
    IN  Local_onStatus(m2, id, MEDIA_STATE, Num(MEDIA_STOPPED))

Local_getDuration(m, id) == m.objs[id]._duration

\* Mutant: a failed read is reported as an Error notification.
Local_getCurrentPosition_ReportsError(m, id) ==
    IF ~HasNode(m.objs[id])
    THEN Local_onStatus(m, id, MEDIA_ERROR, Obj(MEDIA_ERR_ABORTED))
    ELSE LET p  == Num(m.objs[id].node.currentTime)
             m1 == Local_onStatus(m, id, MEDIA_POSITION, p)
         IN  [m1 EXCEPT !.calls = Append(@, Call("success", id, <<p>>))]

\* getCurrentPosition(success, fail): reading this.node.currentTime of an
\* absent element throws a TypeError, which the catch hands to fail.

Local_getCurrentPosition(m, id) ==
    IF ~HasNode(m.objs[id])
    THEN [m EXCEPT !.calls = Append(@, Call("fail", id, <<Exc("TypeError")>>))]
    ELSE LET p  == Num(m.objs[id].node.currentTime)
             m1 == Local_onStatus(m, id, MEDIA_POSITION, p)
         IN  [m1 EXCEPT !.calls = Append(@, Call("success", id, <<p>>))]

Local_startRecord(m, id) == Local_onStatus(m, id, MEDIA_ERROR, Str("Not supported"))

\* Mutant: stopRecord() pauses the element first.
Local_stopRecord_Pauses(m, id) ==
    Local_onStatus(Local_pause(m, id, FALSE), id, MEDIA_ERROR, Str("Not supported"))

Local_stopRecord(m, id) == Local_onStatus(m, id, MEDIA_ERROR, Str("Not supported"))

\* Mutant: release() forgets the cached duration too.
Local_release_Forgets(m, id) ==
    [m EXCEPT !.objs[id].node = Undefined, !.objs[id]._duration = Num(-1)]

\* Mutant: release() also takes the handle out of the registry.
Local_release_Unregisters(m, id) ==
    [m EXCEPT !.objs = [i \in DOMAIN m.objs \ {id} |-> m.objs[i]]]

\* delete this.node
Local_release(m, id) == [m EXCEPT !.objs[id].node = Undefined]

\* Mutant: setVolume reports an absent element as an Error notification.
Local_setVolume_Reports(m, id, volume) ==
    IF HasNode(m.objs[id])
    THEN [m EXCEPT !.objs[id].node.volume = volume]
    ELSE Local_onStatus(m, id, MEDIA_ERROR, Exc("TypeError"))

\* this.node.volume = volume, outside any try: a TypeError when the element
\* is absent.

Local_setVolume(m, id, volume) ==
    IF HasNode(m.objs[id])
    THEN [m EXCEPT !.objs[id].node.volume = volume]
    ELSE Throw(m)

\* The element's listeners, as createNode wires them.
Node_onloadstart(m, id) == Local_onStatus(m, id, MEDIA_STATE, Num(MEDIA_STARTING))

Node_onplaying(m, id) == Local_onStatus(m, id, MEDIA_STATE, Num(MEDIA_RUNNING))

Node_ondurationchange(m, id, duration) ==
    Local_onStatus(m, id, MEDIA_DURATION, IF Truthy(duration) THEN duration ELSE Num(-1))

Node_onerror(m, id, code) ==
    Local_onStatus(m, id, MEDIA_ERROR,
                   IF code = MEDIA_ERR_SRC_NOT_SUPPORTED
                   THEN Obj(MEDIA_ERR_ABORTED) ELSE Obj(code))

Node_onended(m, id) == Local_onStatus(m, id, MEDIA_STATE, Num(MEDIA_STOPPED))

----------------------------------------------------------------------------
(* Bridge variant: src/www/NocSonicMedia.js *)

\* What exec() is given as its error callback when the code passes
\* this.errorCallback.
ErrorCallbackOf(h) == IF "errorCallback" \in h.callbacks THEN "errorCallback" ELSE "none"

\* exec(win, fail, "NocSonicMedia", action, [id, ...]): the request is in
\* flight until native code answers it.  Of the arguments only the id is
\* kept: the others are forwarded and never read again on this side.
exec(m, win, fail, action, id) ==
    [m EXCEPT !.pending = @ (+) SetToBag({[win |-> win, fail |-> fail,
                                           action |-> action, id |-> id]})]

\* Mutant: a message of an unknown type is reported as an error.
Bridge_onStatus_DefaultIsError(m, id, msgType, value) ==
    IF id \in DOMAIN m.objs
    THEN CASE msgType = MEDIA_STATE ->
                LET m1 == Invoke(m, id, "statusCallback", <<value>>)
                IN  IF LooseEq(value, MEDIA_STOPPED)
                    THEN Invoke(m1, id, "successCallback", <<>>)
                    ELSE m1
           [] msgType = MEDIA_DURATION ->
                [m EXCEPT !.objs[id]._duration = value]
           [] msgType = MEDIA_POSITION ->
                [m EXCEPT !.objs[id]._position = Number(value)]
           [] OTHER ->
                Invoke(m, id, "errorCallback", <<value>>)
    ELSE m

\* Mutant: an error also resets the cached position.
Bridge_onStatus_ErrorResets(m, id, msgType, value) ==
    IF id \in DOMAIN m.objs
    THEN CASE msgType = MEDIA_STATE ->
                LET m1 == Invoke(m, id, "statusCallback", <<value>>)
                IN  IF LooseEq(value, MEDIA_STOPPED)
                    THEN Invoke(m1, id, "successCallback", <<>>)
                    ELSE m1
           [] msgType = MEDIA_DURATION ->
                [m EXCEPT !.objs[id]._duration = value]
           [] msgType = MEDIA_ERROR ->
                Invoke([m EXCEPT !.objs[id]._position = Num(-1)],
                       id, "errorCallback", <<value>>)
           [] msgType = MEDIA_POSITION ->
                [m EXCEPT !.objs[id]._position = Number(value)]
           [] OTHER -> m
    ELSE m

Bridge_onStatus(m, id, msgType, value) ==
    IF id \in DOMAIN m.objs
    THEN CASE msgType = MEDIA_STATE ->
                LET m1 == Invoke(m, id, "statusCallback", <<value>>)
                IN  IF LooseEq(value, MEDIA_STOPPED)
                    THEN Invoke(m1, id, "successCallback", <<>>)
                    ELSE m1
           [] msgType = MEDIA_DURATION ->
                [m EXCEPT !.objs[id]._duration = value]
           [] msgType = MEDIA_ERROR ->
                Invoke(m, id, "errorCallback", <<value>>)
           [] msgType = MEDIA_POSITION ->
                [m EXCEPT !.objs[id]._position = Number(value)]
           [] OTHER -> m
    ELSE m

Bridge_construct(m, id, src, cbs) ==
    LET h  == [ src |-> src, callbacks |-> cbs, _duration |-> Num(-1),
                _position |-> Num(-1), node |-> Undefined ]
        m0 == [m EXCEPT !.objs = [i \in DOMAIN m.objs \cup {id} |->
                                    IF i = id THEN h ELSE m.objs[i]]]
    IN  exec(m0, "none", ErrorCallbackOf(h), "create", id)

Bridge_play(m, id) == exec(m, "none", "none", "startPlayingAudio", id)

Bridge_stop(m, id) == exec(m, "stop", ErrorCallbackOf(m.objs[id]), "stopPlayingAudio", id)

Bridge_seekTo(m, id) == exec(m, "seekTo", ErrorCallbackOf(m.objs[id]), "seekToAudio", id)

Bridge_pause(m, id) == exec(m, "none", ErrorCallbackOf(m.objs[id]), "pausePlayingAudio", id)

Bridge_getDuration(m, id) == m.objs[id]._duration

Bridge_getCurrentPosition(m, id) ==
    exec(m, "getCurrentPosition", "fail", "getCurrentPositionAudio", id)

Bridge_startRecord(m, id) ==
    exec(m, "none", ErrorCallbackOf(m.objs[id]), "startRecordingAudio", id)

Bridge_stopRecord(m, id) ==
    exec(m, "none", ErrorCallbackOf(m.objs[id]), "stopRecordingAudio", id)

Bridge_release(m, id) == exec(m, "none", ErrorCallbackOf(m.objs[id]), "release", id)

Bridge_setVolume(m, id) == exec(m, "none", "none", "setVolume", id)

\* Mutant: every acknowledgment resets the cached position.
Bridge_win_AlwaysResets(m, req, p) ==
    [m EXCEPT !.objs[req.id]._position = Num(0)]

\* Mutant: the acknowledgment of a seek sets the position of every handle.
Bridge_win_EveryHandle(m, req, p) ==
    CASE req.win = "stop" -> [m EXCEPT !.objs[req.id]._position = Num(0)]
      [] req.win = "seekTo" ->
            [m EXCEPT !.objs = [i \in DOMAIN m.objs |->
                                  [m.objs[i] EXCEPT !._position = p]]]
      [] req.win = "getCurrentPosition" ->
            [m EXCEPT !.objs[req.id]._position = p,
                      !.calls = Append(@, Call("success", req.id, <<p>>))]
      [] OTHER -> m

\* The success callbacks the code hands to exec, run with payload p.
\*   stop:               me._position = 0
\*   seekTo:             me._position = p
\*   getCurrentPosition: me._position = p; success(p)
Bridge_win(m, req, p) ==
    CASE req.win = "stop" -> [m EXCEPT !.objs[req.id]._position = Num(0)]
      [] req.win = "seekTo" -> [m EXCEPT !.objs[req.id]._position = p]
      [] req.win = "getCurrentPosition" ->
            [m EXCEPT !.objs[req.id]._position = p,
                      !.calls = Append(@, Call("success", req.id, <<p>>))]
      [] OTHER -> m

\* The error callbacks the code hands to exec, run with payload e.
Bridge_fail(m, req, e) ==
    CASE req.fail = "errorCallback" ->
            [m EXCEPT !.calls = Append(@, Call("errorCallback", req.id, <<e>>))]
      [] req.fail = "fail" ->
            [m EXCEPT !.calls = Append(@, Call("fail", req.id, <<e>>))]
      [] OTHER -> m

\* Native code answers a request, once.
Answered(m, req) == [m EXCEPT !.pending = @ (-) SetToBag({req})]

\* The value tried through the message channel for each message type (the
\* other values are tried on onStatus itself).
ChannelValue(msgType) ==
    CASE msgType = MEDIA_STATE -> Num(MEDIA_STOPPED)
      [] msgType = MEDIA_DURATION -> Num(7)
      [] msgType = MEDIA_POSITION -> Str("2")
      [] msgType = MEDIA_ERROR -> Num(1)
      [] OTHER -> Num(0)

\* The messages native code may send: status messages as onStatus takes
\* them, and messages with another action.
MessagesFromNative ==
    {[action |-> action,
      status |-> [id |-> id, msgType |-> msgType, value |-> ChannelValue(msgType)]] :
        <<action, id, msgType>> \in
            {t \in {"status", "other"} \X (Ids \cup {UnknownId})
                     \X (MsgTypes \cup {UnknownMsgType}) :
                /\ t[2] = UnknownId => t[3] = MEDIA_STATE
                /\ t[1] = "other" => t[3] = MEDIA_STATE}}

\* Mutant: a message with another action is ignored.
onMessageFromNative_Lenient(m, msg) ==
    IF msg.action = "status"
    THEN Bridge_onStatus(m, msg.status.id, msg.status.msgType, msg.status.value)
    ELSE m

\* onMessageFromNative(msg)
onMessageFromNative(m, msg) ==
    IF msg.action = "status"
    THEN Bridge_onStatus(m, msg.status.id, msg.status.msgType, msg.status.value)
    ELSE Throw(m)

----------------------------------------------------------------------------
(* The state machine *)

(* Start-up of the bridge file: src/www/NocSonicMedia.js, 205-216 *)

\* cordova.platformId of the page; "ios" stands for every platform the
\* file's last statement does not name.
Platforms == {"android", "amazon-fireos", "windowsphone", "ios"}

\* The platform of the pages whose handles are explored.
PagePlatform == "android"

\* if (cordova.platformId === 'android' || ... 'amazon-fireos' || ...
\* 'windowsphone')
UsesMessageChannel(platformId) ==
    platformId \in {"android", "amazon-fireos", "windowsphone"}

\* The file is loaded: on the named platforms the gate
\* onNocSonicMediaPluginReady is created (createSticky) and waited for
\* (waitForInitialization), and a subscriber is added to onCordovaReady.
LoadModule(platformId) ==
    [ platformId      |-> platformId,
      gate            |-> IF UsesMessageChannel(platformId) THEN "waiting" ELSE "none",
      subscribed      |-> UsesMessageChannel(platformId),
      cordovaReady    |-> FALSE,
      deviceReady     |-> FALSE,
      channelRequests |-> 0 ]

\* Mutant: the gate is signalled complete without the request.
onCordovaReady_NoRequest(b) == [b EXCEPT !.gate = "complete"]

\* The subscriber: exec(onMessageFromNative, undefined, 'NocSonicMedia',
\* 'messageChannel', []), then initializationComplete of the gate.
onCordovaReady(b) ==
    LET b1 == [b EXCEPT !.channelRequests = @ + 1]
    IN  [b1 EXCEPT !.gate = "complete"]

\* The page of the local file, which has no start-up code.
LocalPage ==
    [ platformId      |-> "browser",
      gate            |-> "none",
      subscribed      |-> FALSE,
      cordovaReady    |-> TRUE,
      deviceReady     |-> TRUE,
      channelRequests |-> 0 ]

Registered == DOMAIN mediaObjects

\* utils.createUUID(): the next id not yet handed out.
createUUID == IdSeq[Cardinality(Registered) + 1]

\* The history of successCallback invocations is kept only in the
\* behaviours that start with it empty (InitOnce).
NotTracked == {"not tracked"}

SucceededIn(cs) == {cs[i].id : i \in {j \in DOMAIN cs : cs[j].cb = "successCallback"}}

\* No operation is running: the page's event loop is idle.
Idle == [name |-> "idle", id |-> UnknownId]

\* The operation o runs to completion, to m: its effects become the state.
\* Operations do not overlap (one thread, run to completion).
Commit(m, o) ==
    /\ op = Idle
    /\ boot.deviceReady
    /\ mediaObjects' = m.objs
    /\ pending' = m.pending
    /\ calls' = m.calls
    /\ raised' = m.raised
    /\ op' = o
    /\ succeeded' = IF succeeded = NotTracked THEN NotTracked
                     ELSE succeeded \cup SucceededIn(m.calls)
    /\ UNCHANGED <<variant, boot>>

\* The page as the file's last statement leaves it.  The local file has no
\* start-up code: its page is taken up once Cordova is ready.
Loaded(v, platformId) ==
    IF v = "bridge" THEN LoadModule(platformId) ELSE LocalPage

Init ==
    /\ variant \in {"bridge", "local"}
    /\ mediaObjects = << >>
    /\ pending = EmptyBag
    /\ op = Idle
    /\ calls = << >>
    /\ raised = FALSE
    /\ succeeded = NotTracked
    /\ boot = Loaded(variant, PagePlatform)

InitLocal == Init /\ variant = "local"

InitOnce ==
    /\ variant \in {"bridge", "local"}
    /\ mediaObjects = << >>
    /\ pending = EmptyBag
    /\ op = Idle
    /\ calls = << >>
    /\ raised = FALSE
    /\ succeeded = {}
    /\ boot = Loaded(variant, PagePlatform)

InitBridge == Init /\ variant = "bridge"

\* The bridge file loaded on any of the platforms.
InitBoot ==
    /\ variant = "bridge"
    /\ mediaObjects = << >>
    /\ pending = EmptyBag
    /\ op = Idle
    /\ calls = << >>
    /\ raised = FALSE
    /\ succeeded = NotTracked
    /\ \E platformId \in Platforms : boot = LoadModule(platformId)

CanExec == BagCardinality(pending) < MaxPending

\* The callbacks a new handle may be constructed with.  The handles of one
\* page are all given the same ones, and a page that passes none (where no
\* operation is observed through a callback) is explored with one handle.
CallbacksToPass ==
    {cbs \in CallbackChoices :
        \A i \in Registered : mediaObjects[i].callbacks = cbs /\ cbs # {}}

(* ---- local variant ---- *)

L_construct ==
    /\ variant = "local"
    /\ Cardinality(Registered) < Len(IdSeq)
    /\ \E src \in Srcs, cbs \in CallbacksToPass, nodeOk \in BOOLEAN :
          Commit(Local_construct(Run, createUUID, src, cbs, nodeOk),
                 [name |-> "construct", id |-> createUUID, nodeOk |-> nodeOk])

L_play ==
    /\ variant = "local"
    /\ \E id \in Registered, nodeOk \in BOOLEAN :
          /\ HasNode(mediaObjects[id]) => nodeOk
          /\ Commit(Local_play(Run, id, nodeOk),
                    [name |-> "play", id |-> id, nodeOk |-> nodeOk,
                     hadNode |-> HasNode(mediaObjects[id])])

L_stop ==
    /\ variant = "local"
    /\ \E id \in Registered, pauseFails \in BOOLEAN, seekFails \in BOOLEAN :
          /\ ~HasNode(mediaObjects[id]) => ~pauseFails /\ ~seekFails
          /\ Commit(Local_stop(Run, id, pauseFails, seekFails),
                    [name |-> "stop", id |-> id, pauseFails |-> pauseFails,
                     seekFails |-> seekFails,
                     hadNode |-> HasNode(mediaObjects[id])])

L_seekTo ==
    /\ variant = "local"
    /\ \E id \in Registered, ms \in SeekMs, elementFails \in BOOLEAN :
          /\ ~HasNode(mediaObjects[id]) => ~elementFails
          /\ Commit(Local_seekTo(Run, id, ms, elementFails),
                    [name |-> "seekTo", id |-> id, ms |-> ms,
                     elementFails |-> elementFails,
                     hadNode |-> HasNode(mediaObjects[id])])

L_pause ==
    /\ variant = "local"
    /\ \E id \in Registered, elementFails \in BOOLEAN :
          /\ ~HasNode(mediaObjects[id]) => ~elementFails
          /\ Commit(Local_pause(Run, id, elementFails),
                    [name |-> "pause", id |-> id, elementFails |-> elementFails,
                     hadNode |-> HasNode(mediaObjects[id])])

L_getDuration ==
    /\ variant = "local"
    /\ \E id \in Registered :
          Commit(Run, [name |-> "getDuration", id |-> id,
                       ret |-> Local_getDuration(Run, id)])

L_getCurrentPosition ==
    /\ variant = "local"
    /\ \E id \in Registered :
          Commit(Local_getCurrentPosition(Run, id),
                 [name |-> "getCurrentPosition", id |-> id,
                  hadNode |-> HasNode(mediaObjects[id])])

L_startRecord ==
    /\ variant = "local"
    /\ \E id \in Registered :
          Commit(Local_startRecord(Run, id), [name |-> "startRecord", id |-> id])

L_stopRecord ==
    /\ variant = "local"
    /\ \E id \in Registered :
          Commit(Local_stopRecord(Run, id), [name |-> "stopRecord", id |-> id])

L_release ==
    /\ variant = "local"
    /\ \E id \in Registered :
          Commit(Local_release(Run, id),
                 [name |-> "release", id |-> id,
                  hadNode |-> HasNode(mediaObjects[id])])

L_setVolume ==
    /\ variant = "local"
    /\ \E id \in Registered, volume \in Volumes :
          Commit(Local_setVolume(Run, id, volume),
                 [name |-> "setVolume", id |-> id, volume |-> volume,
                  hadNode |-> HasNode(mediaObjects[id])])

\* NocSonicMedia.onStatus called with any id, message type and value.
L_onStatus ==
    /\ variant = "local"
    /\ \E id \in Ids \cup {UnknownId}, msgType \in MsgTypes \cup {UnknownMsgType} :
          \E value \in ValuesOf(id, msgType) :
             Commit(Local_onStatus(Run, id, msgType, value),
                    [name |-> "onStatus", id |-> id, msgType |-> msgType,
                     value |-> value])

\* The element's events reach the listeners of a live element.
L_onloadstart ==
    /\ variant = "local"
    /\ \E id \in Registered :
          /\ HasNode(mediaObjects[id])
          /\ Commit(Node_onloadstart(Run, id), [name |-> "onloadstart", id |-> id])

L_onplaying ==
    /\ variant = "local"
    /\ \E id \in Registered :
          /\ HasNode(mediaObjects[id])
          /\ ~mediaObjects[id].node.paused
          /\ Commit(Node_onplaying(Run, id), [name |-> "onplaying", id |-> id])

L_ondurationchange ==
    /\ variant = "local"
    /\ \E id \in Registered, duration \in ElementDurations :
          /\ HasNode(mediaObjects[id])
          /\ Commit(Node_ondurationchange(Run, id, duration),
                    [name |-> "ondurationchange", id |-> id, duration |-> duration])

L_onerror ==
    /\ variant = "local"
    /\ \E id \in Registered, code \in ElementErrorCodes :
          /\ HasNode(mediaObjects[id])
          /\ Commit(Node_onerror(Run, id, code),
                    [name |-> "onerror", id |-> id, code |-> code])

L_onended ==
    /\ variant = "local"
    /\ \E id \in Registered :
          /\ HasNode(mediaObjects[id])
          /\ ~mediaObjects[id].node.paused
          /\ Commit(Node_onended(Run, id), [name |-> "onended", id |-> id])

\* The operation has returned: what it was seen to do is forgotten.
Return ==
    /\ op # Idle
    /\ op' = Idle
    /\ calls' = << >>
    /\ raised' = FALSE
    /\ UNCHANGED <<variant, mediaObjects, pending, succeeded, boot>>

NextLocal ==
    \/ Return
    \/ L_construct \/ L_play \/ L_stop \/ L_seekTo \/ L_pause
    \/ L_getDuration \/ L_getCurrentPosition \/ L_startRecord \/ L_stopRecord
    \/ L_release \/ L_setVolume \/ L_onStatus
    \/ L_onloadstart \/ L_onplaying \/ L_ondurationchange \/ L_onerror
    \/ L_onended

(* ---- bridge variant ---- *)

B_construct ==
    /\ variant = "bridge"
    /\ Cardinality(Registered) < Len(IdSeq)
    /\ CanExec
    /\ \E src \in Srcs, cbs \in CallbacksToPass :
          Commit(Bridge_construct(Run, createUUID, src, cbs),
                 [name |-> "construct", id |-> createUUID])

B_play ==
    /\ variant = "bridge" /\ CanExec
    /\ \E id \in Registered :
          Commit(Bridge_play(Run, id), [name |-> "play", id |-> id])

B_stop ==
    /\ variant = "bridge" /\ CanExec
    /\ \E id \in Registered :
          Commit(Bridge_stop(Run, id), [name |-> "stop", id |-> id])

B_seekTo ==
    /\ variant = "bridge" /\ CanExec
    /\ \E id \in Registered, ms \in SeekMs :
          Commit(Bridge_seekTo(Run, id), [name |-> "seekTo", id |-> id, ms |-> ms])

B_pause ==
    /\ variant = "bridge" /\ CanExec
    /\ \E id \in Registered :
          Commit(Bridge_pause(Run, id), [name |-> "pause", id |-> id])

B_getDuration ==
    /\ variant = "bridge"
    /\ \E id \in Registered :
          Commit(Run, [name |-> "getDuration", id |-> id,
                       ret |-> Bridge_getDuration(Run, id)])

B_getCurrentPosition ==
    /\ variant = "bridge" /\ CanExec
    /\ \E id \in Registered :
          Commit(Bridge_getCurrentPosition(Run, id),
                 [name |-> "getCurrentPosition", id |-> id])

B_startRecord ==
    /\ variant = "bridge" /\ CanExec
    /\ \E id \in Registered :
          Commit(Bridge_startRecord(Run, id), [name |-> "startRecord", id |-> id])

B_stopRecord ==
    /\ variant = "bridge" /\ CanExec
    /\ \E id \in Registered :
          Commit(Bridge_stopRecord(Run, id), [name |-> "stopRecord", id |-> id])

B_release ==
    /\ variant = "bridge" /\ CanExec
    /\ \E id \in Registered :
          Commit(Bridge_release(Run, id), [name |-> "release", id |-> id])

B_setVolume ==
    /\ variant = "bridge" /\ CanExec
    /\ \E id \in Registered, volume \in Volumes :
          Commit(Bridge_setVolume(Run, id),
                 [name |-> "setVolume", id |-> id, volume |-> volume])

\* Native code answers a request in flight with success and payload p.
B_ackSuccess ==
    /\ variant = "bridge"
    /\ \E req \in BagToSet(pending), p \in PositionValues :
          Commit(Bridge_win(Answered(Run, req), req, p),
                 [name |-> "ackSuccess", id |-> req.id, action |-> req.action,
                  value |-> p])

\* Native code answers a request in flight with an error and payload e.
B_ackError ==
    /\ variant = "bridge"
    /\ \E req \in BagToSet(pending), e \in ErrorValues :
          Commit(Bridge_fail(Answered(Run, req), req, e),
                 [name |-> "ackError", id |-> req.id, action |-> req.action,
                  value |-> e])

\* Native code calls NocSonicMedia.onStatus with any id, type and value.
B_onStatus ==
    /\ variant = "bridge"
    /\ \E id \in Ids \cup {UnknownId}, msgType \in MsgTypes \cup {UnknownMsgType} :
          \E value \in ValuesOf(id, msgType) :
             Commit(Bridge_onStatus(Run, id, msgType, value),
                    [name |-> "onStatus", id |-> id, msgType |-> msgType,
                     value |-> value])

\* Native code sends msg through the message channel, which is open once
\* the messageChannel request has been issued.
B_onMessageFromNative ==
    /\ variant = "bridge"
    /\ boot.channelRequests > 0
    /\ \E msg \in MessagesFromNative :
          Commit(onMessageFromNative(Run, msg),
                 [name |-> "onMessageFromNative", id |-> msg.status.id,
                  action |-> msg.action, msgType |-> msg.status.msgType,
                  value |-> msg.status.value])

\* Cordova's onCordovaReady fires, once, and runs its subscribers.
CordovaReady ==
    /\ variant = "bridge"
    /\ ~boot.cordovaReady
    /\ boot' = LET b == [boot EXCEPT !.cordovaReady = TRUE]
               IN  IF b.subscribed THEN onCordovaReady(b) ELSE b
    /\ UNCHANGED <<variant, mediaObjects, pending, op, calls, raised, succeeded>>

\* Cordova's deviceready fires, once, when onCordovaReady has fired and no
\* gate is being waited for; the application's code runs from then on.
DeviceReady ==
    /\ variant = "bridge"
    /\ boot.cordovaReady
    /\ boot.gate # "waiting"
    /\ ~boot.deviceReady
    /\ boot' = [boot EXCEPT !.deviceReady = TRUE]
    /\ UNCHANGED <<variant, mediaObjects, pending, op, calls, raised, succeeded>>

NextBridge ==
    \/ Return
    \/ B_construct \/ B_play \/ B_stop \/ B_seekTo \/ B_pause
    \/ B_getDuration \/ B_getCurrentPosition \/ B_startRecord \/ B_stopRecord
    \/ B_release \/ B_setVolume \/ B_ackSuccess \/ B_ackError \/ B_onStatus
    \/ B_onMessageFromNative \/ CordovaReady \/ DeviceReady
Next == NextLocal \/ NextBridge

Spec == Init /\ [][Next]_vars

SpecLocal == InitLocal /\ [][NextLocal]_vars

SpecBridge == InitBridge /\ [][NextBridge]_vars

SpecOnce == InitOnce /\ [][Next]_vars

SpecBoot == InitBoot /\ [][NextBridge]_vars

----------------------------------------------------------------------------
(* Vocabulary of the properties *)

StatusCall(id, v) == Call("statusCallback", id, <<v>>)
SuccessCall(id) == Call("successCallback", id, << >>)
ErrorCall(id, e) == Call("errorCallback", id, <<e>>)

\* Of the invocations cs, those of callbacks the handle was given: the
\* others cannot take place.
Passed(objs, cs) ==
    SelectSeq(cs, LAMBDA c : c.cb \in objs[c.id].callbacks)

Count(cs, cb, id) == Cardinality({i \in DOMAIN cs : cs[i].cb = cb /\ cs[i].id = id})

AllPassed(id) == mediaObjects[id].callbacks = CallbackNames

\* The operation o is a call of NocSonicMedia.onStatus from outside,
\* directly or through the message channel.
IsMessage(o) ==
    \/ o.name = "onStatus"
    \/ o.name = "onMessageFromNative" /\ o.action = "status"

\* The operation o is NocSonicMedia.onStatus(id, msgType, ...) for a
\* handle of the registry reg, called from outside or by a listener of the
\* element.
IsStatus(o, reg, msgType) ==
    /\ o.id \in reg
    /\ \/ IsMessage(o) /\ o.msgType = msgType
       \/ msgType = MEDIA_STATE /\ o.name \in {"onloadstart", "onplaying", "onended"}
       \/ msgType = MEDIA_DURATION /\ o.name = "ondurationchange"
       \/ msgType = MEDIA_ERROR /\ o.name = "onerror"

\* The value that message carries.
StatusValue(o) ==
    CASE o.name \in {"onStatus", "onMessageFromNative"} -> o.value
      [] o.name = "onloadstart" -> Num(MEDIA_STARTING)
      [] o.name = "onplaying" -> Num(MEDIA_RUNNING)
      [] o.name = "onended" -> Num(MEDIA_STOPPED)
      [] o.name = "ondurationchange" ->
            IF o.duration \in {NaN, Num(0)} THEN Num(-1) ELSE o.duration
      [] o.name = "onerror" ->
            IF o.code = MEDIA_ERR_SRC_NOT_SUPPORTED
            THEN Obj(MEDIA_ERR_ABORTED) ELSE Obj(o.code)

PlaybackStates == {Num(n) : n \in {MEDIA_NONE, MEDIA_STARTING, MEDIA_RUNNING,
                                   MEDIA_PAUSED, MEDIA_STOPPED}}

----------------------------------------------------------------------------
(* C1 *)

\* C1: in both variants, delivering onStatus(id, State, v) for a handle of
\* the registry invokes its statusCallback(v) first; when v is Stopped it
\* then invokes successCallback() once, with no arguments; when v is one of
\* None, Starting, Running, Paused it invokes nothing else.  (A callback
\* the handle was not given is not invoked.)
C1_StateDispatch ==
    (IsStatus(op, Registered, MEDIA_STATE) /\ StatusValue(op) \in PlaybackStates)
    => /\ calls = Passed(mediaObjects,
                         IF StatusValue(op) = Num(MEDIA_STOPPED)
                         THEN <<StatusCall(op.id, StatusValue(op)), SuccessCall(op.id)>>
                         ELSE <<StatusCall(op.id, StatusValue(op))>>)
       /\ ~raised

C1_Witness ==
    /\ op.name = "onStatus"
    /\ op.id \in Registered
    /\ op.msgType = MEDIA_STATE
    /\ op.value = Num(MEDIA_STOPPED)
    /\ calls = <<StatusCall(op.id, Num(MEDIA_STOPPED)), SuccessCall(op.id)>>

----------------------------------------------------------------------------
(* C2 *)

\* The operation o reports, of itself, that playback of handle id has
\* reached the stopped state: the element's ended event, or a Stopped
\* state message from outside.
NaturalStop(o, id) ==
    /\ o.id = id
    /\ \/ o.name = "onended"
       \/ IsMessage(o) /\ o.msgType = MEDIA_STATE
                        /\ Number(o.value) = Num(MEDIA_STOPPED)

\* The operation o delivers a Stopped state notification to handle id: a
\* natural stop, or the local variant's stop().  (The bridge variant
\* compares with ==, the local one with ===.)
DeliversStopped(o, id) ==
    /\ o.id = id
    /\ \/ o.name = "onended"
       \/ o.name = "stop" /\ variant = "local"
       \/ /\ IsMessage(o)
          /\ o.msgType = MEDIA_STATE
          /\ IF variant = "bridge"
             THEN LooseEq(o.value, MEDIA_STOPPED)
             ELSE StrictEq(o.value, MEDIA_STOPPED)

\* C2, as claimed: successCallback of a handle fires only at a natural
\* stop, and only if it has not fired before (so: not for a further
\* Stopped notification, not for an explicit stop()).
C2_OnceAtNaturalStop ==
    [][\A id \in Ids :
          Count(calls', "successCallback", id) > 0
          => /\ Count(calls', "successCallback", id) = 1
             /\ NaturalStop(op', id)
             /\ id \notin succeeded]_vars

\* C2, amended: successCallback of a handle that was given one fires once
\* for every Stopped state notification delivered to the handle -- the
\* element's ended event, a Stopped report from outside, any further one,
\* and the local variant's explicit stop() alike -- and in no other
\* operation.
C2_OncePerStopped ==
    \A id \in Registered :
        Count(calls, "successCallback", id) =
            IF DeliversStopped(op, id) /\ "successCallback" \in mediaObjects[id].callbacks
            THEN 1 ELSE 0

\* An explicit stop() of the local variant, on a handle whose
\* successCallback had fired before, fires it again.
C2_Witness ==
    /\ variant = "local"
    /\ op.name = "stop"
    /\ op.id \in succeeded
    /\ Count(calls, "successCallback", op.id) = 1
    /\ \E i \in DOMAIN calls : calls[i] = SuccessCall(op.id) /\ i > 1

----------------------------------------------------------------------------
(* C3 *)

\* C3: getDuration() returns the cached duration; a handle is constructed
\* with it at -1; a Duration message for the handle's id sets it to exactly
\* the value delivered; no other operation or message changes it.
C3_Duration ==
    [][/\ \A id \in DOMAIN mediaObjects' :
             mediaObjects'[id]._duration =
                IF id \notin Registered THEN Num(-1)
                ELSE IF IsStatus(op', Registered, MEDIA_DURATION) /\ op'.id = id
                     THEN StatusValue(op')
                     ELSE mediaObjects[id]._duration
       /\ op'.name = "getDuration" => op'.ret = mediaObjects[op'.id]._duration]_vars

\* getDuration() returns 7 after a Duration message of 7, whatever
\* happened since.
C3_Witness ==
    /\ op.name = "getDuration"
    /\ op.ret = Num(7)

----------------------------------------------------------------------------
(* C4 *)

\* C4: local variant.  play() on a handle whose element is absent (after
\* release()), when the element can be built, rebuilds it with the five
\* listeners and the handle's source, starts it, invokes no callback and
\* does not raise; the playing event of a handle's element then gives
\* statusCallback(Running).
C4_ReleasePlay ==
    /\ (variant = "local" /\ op.name = "play" /\ ~op.hadNode /\ op.nodeOk)
       => /\ HasNode(mediaObjects[op.id])
          /\ mediaObjects[op.id].node.listeners = NodeListeners
          /\ mediaObjects[op.id].node.src = mediaObjects[op.id].src
          /\ ~mediaObjects[op.id].node.paused
          /\ calls = << >>
          /\ ~raised
    /\ (variant = "local" /\ op.name = "onplaying")
       => /\ calls = Passed(mediaObjects, <<StatusCall(op.id, Num(MEDIA_RUNNING))>>)
          /\ ~raised

C4_Witness ==
    /\ variant = "local"
    /\ op.name = "play"
    /\ ~op.hadNode
    /\ HasNode(mediaObjects[op.id])
    /\ ~mediaObjects[op.id].node.paused
    /\ mediaObjects[op.id].node.src = Str("track.mp3")

----------------------------------------------------------------------------
(* C5 *)

\* C5: local variant.  play() on a handle whose element is absent, when the
\* element cannot be built, gives errorCallback({code: MEDIA_ERR_ABORTED})
\* and returns without raising.
C5_PlayRebuildFails ==
    (variant = "local" /\ op.name = "play" /\ ~op.hadNode /\ ~op.nodeOk)
    => /\ calls = Passed(mediaObjects, <<ErrorCall(op.id, Obj(MEDIA_ERR_ABORTED))>>)
       /\ ~raised

----------------------------------------------------------------------------
(* C6 *)

\* How many of the element operations of o failed: the element is absent,
\* or it refused.
ElementFailures(o) ==
    CASE o.name = "pause" -> IF ~o.hadNode \/ o.elementFails THEN 1 ELSE 0
      [] o.name = "seekTo" -> IF ~o.hadNode \/ o.elementFails THEN 1 ELSE 0
      [] o.name = "stop" -> (IF ~o.hadNode \/ o.pauseFails THEN 1 ELSE 0)
                            + (IF ~o.hadNode \/ o.seekFails THEN 1 ELSE 0)
      [] OTHER -> 0

\* C6: local variant.  pause(), stop(), seekTo(ms) and release() never
\* raise, whether the element is live or absent; every failure of an
\* element operation gives one Error notification to errorCallback (of a
\* handle that was given one).
C6_NoRaise ==
    (variant = "local" /\ op.name \in {"pause", "stop", "seekTo", "release"})
    => /\ ~raised
       /\ "errorCallback" \in mediaObjects[op.id].callbacks
          => Count(calls, "errorCallback", op.id) = ElementFailures(op)

\* seekTo on a live element that refuses the new time.
C6_Witness ==
    /\ variant = "local"
    /\ op.name = "seekTo"
    /\ op.hadNode
    /\ op.elementFails
    /\ calls = <<ErrorCall(op.id, Exc("DOMException"))>>
    /\ ~raised

----------------------------------------------------------------------------
(* C7 *)

\* C7: in both variants, onStatus with an id that is not in the registry,
\* or with a message type other than State, Duration, Position, Error for
\* a registered id, invokes no callback, changes no handle and not the
\* registry, and does not raise.
C7_Dropped ==
    [][(IsMessage(op')
        /\ (op'.id \notin Registered \/ op'.msgType \notin MsgTypes))
       => /\ calls' = << >>
          /\ ~raised'
          /\ mediaObjects' = mediaObjects]_vars

\* A message of an unknown type for a handle that was given all callbacks.
C7_Witness ==
    /\ op.name = "onStatus"
    /\ op.id \in Registered
    /\ op.msgType = UnknownMsgType
    /\ AllPassed(op.id)
    /\ calls = << >>

----------------------------------------------------------------------------
(* C8 *)

\* C8: in both variants, an Error message with payload P for a registered
\* handle invokes its errorCallback once, with P, invokes neither
\* statusCallback nor successCallback, and leaves every handle's cached
\* duration and position (and all else) as it was.
C8_ErrorDispatch ==
    [][IsStatus(op', Registered, MEDIA_ERROR)
       => /\ calls' = Passed(mediaObjects, <<ErrorCall(op'.id, StatusValue(op'))>>)
          /\ ~raised'
          /\ mediaObjects' = mediaObjects]_vars

\* An Error message for a handle whose duration and position are known.
C8_Witness ==
    /\ op.name = "onStatus"
    /\ op.id \in Registered
    /\ op.msgType = MEDIA_ERROR
    /\ calls = <<ErrorCall(op.id, op.value)>>
    /\ mediaObjects[op.id]._duration = Num(7)
    /\ mediaObjects[op.id]._position = Num(2)

----------------------------------------------------------------------------
(* C9 *)

\* C9: local variant.  startRecord() and stopRecord(), whether the element
\* is live or absent, give one Error notification "Not supported" to
\* errorCallback, leave the element, the cached duration and the cached
\* position as they were, and do not raise.
C9_RecordNotSupported ==
    [][(variant = "local" /\ op'.name \in {"startRecord", "stopRecord"})
       => /\ calls' = Passed(mediaObjects, <<ErrorCall(op'.id, Str("Not supported"))>>)
          /\ ~raised'
          /\ mediaObjects' = mediaObjects]_vars

\* stopRecord() on a released handle.
C9_Witness ==
    /\ variant = "local"
    /\ op.name = "stopRecord"
    /\ ~HasNode(mediaObjects[op.id])
    /\ calls = <<ErrorCall(op.id, Str("Not supported"))>>
    /\ ~raised

----------------------------------------------------------------------------
(* C10 *)

\* The operation o carries a position for its handle: the acknowledgment
\* of a seek or of a position query, or a Position message.
CarriesPosition(o, reg) ==
    /\ o.id \in reg
    /\ \/ o.name = "ackSuccess" /\ o.action \in {"seekToAudio", "getCurrentPositionAudio"}
       \/ IsMessage(o) /\ o.msgType = MEDIA_POSITION

\* C10: after a seek acknowledgment, a successful position query or a
\* Position message, the handle's cached position is the number the
\* payload denotes, a text payload being converted on each of these paths.
C10_PositionIsNumber ==
    CarriesPosition(op, Registered)
    => mediaObjects[op.id]._position = Number(op.value)

----------------------------------------------------------------------------
(* C11 *)

\* C11: local variant.  getCurrentPosition(success, fail) on a live element
\* sets the cached position to the element's current time and then invokes
\* success with that value, and nothing else.  On an absent element it
\* invokes fail with the caught error, invokes neither success nor any
\* callback of the handle, and leaves the cached position (and the rest of
\* the registry) as it was.  It never raises.
C11_GetCurrentPosition ==
    [][(variant = "local" /\ op'.name = "getCurrentPosition")
       => LET id == op'.id
          IN  /\ ~raised'
              /\ IF HasNode(mediaObjects[id])
                 THEN LET p == Num(mediaObjects[id].node.currentTime)
                      IN  /\ mediaObjects' =
                                [mediaObjects EXCEPT ![id]._position = p]
                          /\ calls' = <<Call("success", id, <<p>>)>>
                 ELSE /\ mediaObjects' = mediaObjects
                      /\ calls' = <<Call("fail", id, <<Exc("TypeError")>>)>>]_vars

\* A position query on a released handle whose cached position had been
\* set: fail alone is invoked and the position stays.
C11_Witness ==
    /\ variant = "local"
    /\ op.name = "getCurrentPosition"
    /\ ~op.hadNode
    /\ AllPassed(op.id)
    /\ mediaObjects[op.id]._position = Num(2)
    /\ calls = <<Call("fail", op.id, <<Exc("TypeError")>>)>>
    /\ ~raised

----------------------------------------------------------------------------
(* C12 *)

\* C12: bridge variant.  A message from native code whose action is
\* 'status' has exactly the effect of onStatus called with the message's
\* id, msgType and value.  A message with any other action raises, invokes
\* no callback and changes no handle.  No message issues a request.
C12_MessageFromNative ==
    [][(variant = "bridge" /\ op'.name = "onMessageFromNative")
       => /\ pending' = pending
          /\ IF op'.action = "status"
             THEN LET m == Bridge_onStatus(Run, op'.id, op'.msgType, op'.value)
                  IN  /\ mediaObjects' = m.objs
                      /\ calls' = m.calls
                      /\ ~raised'
             ELSE /\ raised'
                  /\ calls' = << >>
                  /\ mediaObjects' = mediaObjects]_vars

\* A message with another action, naming a handle that has all its
\* callbacks and cached values: the dispatcher raised and nothing else
\* happened.
C12_Witness ==
    /\ variant = "bridge"
    /\ op.name = "onMessageFromNative"
    /\ op.action = "other"
    /\ op.id \in Registered
    /\ AllPassed(op.id)
    /\ mediaObjects[op.id]._position = Num(2)
    /\ raised
    /\ calls = << >>

----------------------------------------------------------------------------
(* C13 *)

\* The operation o delivers a Position notification to handle id, or is a
\* position query or the acknowledgment of a seek or of a position query
\* of that handle.
MaySetPosition(o, id) ==
    /\ o.id = id
    /\ \/ IsMessage(o) /\ o.msgType = MEDIA_POSITION
       \/ o.name = "getCurrentPosition"
       \/ o.name = "ackSuccess"
             /\ o.action \in {"seekToAudio", "getCurrentPositionAudio"}

\* C13 as stated: a handle's cached position starts at -1 and changes only
\* in a Position notification, a position query or the acknowledgment of a
\* seek or of a position query; every other operation and acknowledgment,
\* stop's included, leaves it as it was.
C13_PositionFrame ==
    [][\A id \in DOMAIN mediaObjects' :
          IF id \in Registered
          THEN mediaObjects'[id]._position # mediaObjects[id]._position
                  => MaySetPosition(op', id)
          ELSE mediaObjects'[id]._position = Num(-1)]_vars

\* C13, amended: as above, except that the acknowledgment of the bridge
\* variant's stop() sets the cached position to 0.
C13_PositionFrameButStop ==
    [][\A id \in DOMAIN mediaObjects' :
          IF id \in Registered
          THEN mediaObjects'[id]._position # mediaObjects[id]._position
                  => \/ MaySetPosition(op', id)
                     \/ /\ variant = "bridge"
                        /\ op'.name = "ackSuccess"
                        /\ op'.action = "stopPlayingAudio"
                        /\ op'.id = id
                        /\ mediaObjects'[id]._position = Num(0)
          ELSE mediaObjects'[id]._position = Num(-1)]_vars

\* The acknowledgment of a stop() has set the cached position to 0 (no
\* payload of a notification or of another acknowledgment is 0).
C13_Witness ==
    /\ variant = "bridge"
    /\ op.name = "ackSuccess"
    /\ op.action = "stopPlayingAudio"
    /\ mediaObjects[op.id]._position = Num(0)

----------------------------------------------------------------------------
(* C14 *)

\* The request by which the constructor announced handle id.
CreateRequest(objs, id) ==
    [win |-> "none", fail |-> ErrorCallbackOf(objs[id]),
     action |-> "create", id |-> id]

HasStatusCallback(objs, id) == "statusCallback" \in objs[id].callbacks

\* C14: construction enters the handle in the registry under an id that
\* was not in it, with the callbacks it was given and duration and position
\* -1, and leaves the other handles alone.  The bridge variant then issues
\* the "create" request, carrying the handle's errorCallback; the local
\* variant then emits the Starting notification, which finds the handle (its
\* statusCallback is the first callback invoked).  Every request in flight
\* names a registered handle, and a State message delivered for a handle
\* whose "create" request is still in flight is dispatched to it.
C14_RegisteredFirst ==
    [][/\ \A req \in BagToSet(pending') : req.id \in DOMAIN mediaObjects'
       /\ op'.name = "construct"
          => LET id == op'.id
             IN  /\ id \notin Registered
                 /\ DOMAIN mediaObjects' = Registered \cup {id}
                 /\ \A i \in Registered : mediaObjects'[i] = mediaObjects[i]
                 /\ mediaObjects'[id].callbacks \in CallbackChoices
                 /\ mediaObjects'[id]._duration = Num(-1)
                 /\ mediaObjects'[id]._position = Num(-1)
                 /\ variant = "bridge"
                    => /\ pending' = pending (+) SetToBag({CreateRequest(mediaObjects', id)})
                       /\ calls' = << >>
                 /\ variant = "local"
                    => IF HasStatusCallback(mediaObjects', id)
                       THEN /\ calls' # << >>
                            /\ calls'[1] = StatusCall(id, Num(MEDIA_STARTING))
                       ELSE calls' = << >>
       /\ (/\ IsMessage(op')
           /\ op'.id \in Registered
           /\ CreateRequest(mediaObjects, op'.id) \in BagToSet(pending)
           /\ op'.msgType = MEDIA_STATE
           /\ HasStatusCallback(mediaObjects, op'.id))
          => /\ calls' # << >>
             /\ calls'[1] = StatusCall(op'.id, op'.value)]_vars

\* A State message for a handle whose "create" request has not been
\* answered yet has reached that handle's statusCallback.
C14_Witness ==
    /\ variant = "bridge"
    /\ op.name = "onStatus"
    /\ op.id \in Registered
    /\ op.msgType = MEDIA_STATE
    /\ CreateRequest(mediaObjects, op.id) \in BagToSet(pending)
    /\ calls = <<StatusCall(op.id, Num(MEDIA_RUNNING))>>

----------------------------------------------------------------------------
(* C15 *)

\* The handle id has been released: its element is absent (local), or its
\* release request is in flight (bridge).
Released(id) ==
    IF variant = "local"
    THEN ~HasNode(mediaObjects[id])
    ELSE \E req \in BagToSet(pending) : req.action = "release" /\ req.id = id

\* C15: the registry only grows.  Every step, release() and the
\* acknowledgment of a release request included, keeps every entry, with
\* the source and the callbacks it was constructed with.  A State or Error
\* message for a registered handle is dispatched to the handle's callback
\* whether or not the handle has been released.
C15_RegistryGrows ==
    [][/\ \A id \in Registered :
             /\ id \in DOMAIN mediaObjects'
             /\ mediaObjects'[id].src = mediaObjects[id].src
             /\ mediaObjects'[id].callbacks = mediaObjects[id].callbacks
       /\ (IsMessage(op') /\ op'.id \in Registered)
          => /\ (op'.msgType = MEDIA_STATE /\ HasStatusCallback(mediaObjects, op'.id))
                  => /\ calls' # << >>
                     /\ calls'[1] = StatusCall(op'.id, op'.value)
             /\ op'.msgType = MEDIA_ERROR
                  => calls' = Passed(mediaObjects, <<ErrorCall(op'.id, op'.value)>>)]_vars

\* A State message racing with a release request that has not been
\* answered reaches the handle's statusCallback.
C15_Witness ==
    /\ variant = "bridge"
    /\ op.name = "onStatus"
    /\ op.id \in Registered
    /\ Released(op.id)
    /\ op.msgType = MEDIA_STATE
    /\ calls = <<StatusCall(op.id, Num(MEDIA_PAUSED))>>

----------------------------------------------------------------------------
(* C16 *)

\* C16: local variant.  stop() on a live element pauses the element and
\* delivers statusCallback(Paused), sets the element's time cursor to 0,
\* then delivers statusCallback(Stopped) followed by successCallback(), in
\* that order, and changes nothing else.  A step of this sequence that the
\* element refuses is reported as an Error notification in its place, the
\* rest of the sequence still runs, and stop() does not raise.
C16_StopLive ==
    [][(variant = "local" /\ op'.name = "stop" /\ op'.hadNode)
       => LET id == op'.id
              h  == mediaObjects[id]
              h1 == IF op'.pauseFails THEN h ELSE [h EXCEPT !.node.paused = TRUE]
              h2 == IF op'.seekFails THEN h1 ELSE [h1 EXCEPT !.node.currentTime = 0]
          IN  /\ ~raised'
              /\ mediaObjects' = [mediaObjects EXCEPT ![id] = h2]
              /\ calls' = Passed(mediaObjects,
                    (IF op'.pauseFails
                     THEN <<ErrorCall(id, Exc("DOMException"))>>
                     ELSE <<StatusCall(id, Num(MEDIA_PAUSED))>>)
                    \o (IF op'.seekFails
                        THEN <<ErrorCall(id, Exc("DOMException"))>>
                        ELSE << >>)
                    \o <<StatusCall(id, Num(MEDIA_STOPPED)), SuccessCall(id)>>)]_vars

\* stop() on a live element that obeys: Paused, Stopped, success, with the
\* element paused at 0.
C16_Witness ==
    /\ variant = "local"
    /\ op.name = "stop"
    /\ op.hadNode /\ ~op.pauseFails /\ ~op.seekFails
    /\ mediaObjects[op.id].node.paused
    /\ mediaObjects[op.id].node.currentTime = 0
    /\ calls = <<StatusCall(op.id, Num(MEDIA_PAUSED)),
                 StatusCall(op.id, Num(MEDIA_STOPPED)), SuccessCall(op.id)>>
    /\ ~raised

----------------------------------------------------------------------------
(* C18 *)

\* The operation o is a status message, an event of the element or the
\* acknowledgment of a request.
FromOutside(o) ==
    o.name \in {"onStatus", "onMessageFromNative", "ackSuccess", "ackError",
                "onloadstart", "onplaying", "ondurationchange", "onerror",
                "onended"}

\* C18: a status message or an acknowledgment for a handle invokes
\* callbacks of that handle only and leaves every other handle of the
\* registry, its cached duration and position included, as it was.
C18_Isolation ==
    [][FromOutside(op')
       => /\ \A i \in DOMAIN calls' : calls'[i].id = op'.id
          /\ \A id \in Registered \ {op'.id} :
                /\ id \in DOMAIN mediaObjects'
                /\ mediaObjects'[id] = mediaObjects[id]]_vars

\* The acknowledgment of a seek of one of two handles has set that
\* handle's position and not the other's.
C18_Witness ==
    /\ variant = "bridge"
    /\ Cardinality(Registered) = 2
    /\ op.name = "ackSuccess"
    /\ op.action = "seekToAudio"
    /\ mediaObjects[op.id]._position = op.value
    /\ \E id \in Registered \ {op.id} : mediaObjects[id]._position = Num(-1)

----------------------------------------------------------------------------
(* C19 *)

\* C19: local variant.  stop() on a handle whose element is absent delivers
\* two Error notifications (the pause and the seek that failed) and then
\* statusCallback(Stopped) and successCallback(); it delivers no Paused
\* notification, does not rebuild the element, changes nothing and does not
\* raise.
C19_StopAbsent ==
    [][(variant = "local" /\ op'.name = "stop" /\ ~op'.hadNode)
       => LET id == op'.id
          IN  /\ ~raised'
              /\ mediaObjects' = mediaObjects
              /\ ~HasNode(mediaObjects'[id])
              /\ calls' = Passed(mediaObjects,
                    <<ErrorCall(id, Exc("TypeError")), ErrorCall(id, Exc("TypeError")),
                      StatusCall(id, Num(MEDIA_STOPPED)), SuccessCall(id)>>)]_vars

\* stop() after release(), on a handle with all its callbacks.
C19_Witness ==
    /\ variant = "local"
    /\ op.name = "stop"
    /\ ~op.hadNode
    /\ ~HasNode(mediaObjects[op.id])
    /\ calls = <<ErrorCall(op.id, Exc("TypeError")), ErrorCall(op.id, Exc("TypeError")),
                 StatusCall(op.id, Num(MEDIA_STOPPED)), SuccessCall(op.id)>>
    /\ ~raised

----------------------------------------------------------------------------
(* C20 *)

\* C20: local variant.  setVolume(v) on a handle whose element is absent
\* raises to its caller, delivers no Error notification, invokes no
\* callback, does not rebuild the element and changes nothing.  On a live
\* element it sets the element's volume to v, changes nothing else, invokes
\* no callback and does not raise.
C20_SetVolume ==
    [][(variant = "local" /\ op'.name = "setVolume")
       => LET id == op'.id
          IN  /\ calls' = << >>
              /\ IF HasNode(mediaObjects[id])
                 THEN /\ ~raised'
                      /\ mediaObjects' =
                            [mediaObjects EXCEPT ![id].node.volume = op'.volume]
                 ELSE /\ raised'
                      /\ mediaObjects' = mediaObjects]_vars

\* setVolume on a released handle that has an errorCallback: it raised and
\* no callback was invoked.
C20_Witness ==
    /\ variant = "local"
    /\ op.name = "setVolume"
    /\ ~op.hadNode
    /\ AllPassed(op.id)
    /\ ~HasNode(mediaObjects[op.id])
    /\ raised
    /\ calls = << >>

----------------------------------------------------------------------------
(* C17 *)

\* C17: bridge variant.  On android, amazon-fireos and windowsphone the
\* gate onNocSonicMediaPluginReady exists from load; the messageChannel
\* request is issued at most once, not before onCordovaReady has fired and
\* exactly once from then on; the gate is complete only if the request has
\* been issued, and deviceready, which waits for the gate, only then.  On
\* any other platform the gate is never created and the request never
\* issued.
C17_Bootstrap ==
    variant = "bridge"
    => /\ boot.channelRequests <= 1
       /\ boot.channelRequests = 1 => boot.cordovaReady
       /\ boot.gate = "complete" => boot.channelRequests = 1
       /\ IF boot.platformId \in {"android", "amazon-fireos", "windowsphone"}
          THEN /\ boot.gate \in {"waiting", "complete"}
               /\ boot.cordovaReady
                    => boot.channelRequests = 1 /\ boot.gate = "complete"
               /\ boot.deviceReady => boot.channelRequests = 1
          ELSE /\ boot.gate = "none"
               /\ boot.channelRequests = 0

\* On amazon-fireos the request has been issued, the gate is complete, the
\* application runs and a message has come through the channel.
C17_Witness ==
    /\ variant = "bridge"
    /\ boot.platformId = "amazon-fireos"
    /\ boot.cordovaReady /\ boot.deviceReady
    /\ boot.gate = "complete"
    /\ boot.channelRequests = 1
    /\ op.name = "onMessageFromNative"
    /\ op.id \in Registered

============================================================================
